---- MODULE Spec2Model ----
\* Model of scripts/parallel_orchestrator.py: the MessageBoard, the AgentTask
\* retry loop and the Orchestrator run (thread pool, wait loop, synthesis).
EXTENDS Integers, Sequences, FiniteSets, TLC

\* ---------------------------------------------------------------- bounds
\* Largest --agents value explored (0 stands for every value <= 0).
MaxAgents == 2
\* Largest --agents value of the task-creation specification, above the five
\* entries of agent_map.
MaxCatalogAgents == 7
\* Largest --retries value explored; the smallest is -2 (-1 is the value at
\* which the loop of execute is never entered, -2 stands for all below it).
MaxRetries == 1
\* Clock range of the MessageBoard specifications: seconds and microseconds.
MaxSec == 1
MaxMicro == 1
\* Posting threads and posts per thread in the MessageBoard specifications.
NumPosters == 2
PostsPerPoster == 2
\* Longest board read in the get_messages specification.
MaxBoard == 3

\* ---------------------------------------------------------------- texts
\* A Python str is modelled by its content and its length in characters, so
\* that slicing (s[:n]) and truthiness (if s:) are computed, not assumed.
T(b, n) == [body |-> b, len |-> n]
EmptyText == T("", 0)
Truthy(t) == t.len > 0
Slice(t, n) == IF t.len <= n THEN t ELSE [body |-> t.body, len |-> n]

ReportOutputCap == 1000
ReportErrorCap == 500

\* AgentStatus values.
PENDING == "pending"
RUNNING == "running"
COMPLETED == "completed"
FAILED == "failed"
RETRYING == "retrying"
AgentStatus == {PENDING, RUNNING, COMPLETED, FAILED, RETRYING}

\* ---------------------------------------------------------------- state
VARIABLES
    agent_count,   \* Orchestrator.agent_count
    max_retries,   \* Orchestrator.max_retries
    test_mode,     \* Orchestrator.test_mode
    rich,          \* RICH_AVAILABLE and console
    tasks,         \* Orchestrator.tasks: sequence of AgentTask records
    pc,            \* per task: position of the worker thread in execute()
    attempts,      \* per task: history of attempt outcomes ("true"/"false"/"raise")
    exc,           \* per task: text of the exception that escaped execute()
    notified,      \* per task: the statuses it had when its progress callback ran
    procs,         \* per task: what became of the process of its latest call
    messages,      \* MessageBoard.messages
    lock,          \* MessageBoard._lock: 0 when free, else the holder
    now,           \* the wall clock read by datetime.now(): <<sec, micro>>
    runPc,         \* position of the main thread in Orchestrator.run()
    runError,      \* what made run() raise ("" when it did not)
    handled,       \* futures already yielded by as_completed, in that order
    caught,        \* tasks whose exception the wait loop caught and printed
    synthCount,    \* number of synthesize() calls
    report,        \* per-task sections of the synthesis report
    bpc,           \* MessageBoard specification: position of each poster
    posted,        \* MessageBoard specification: posts returned per poster
    since,         \* MessageBoard specification: argument of the last get_messages
    got,           \* MessageBoard specification: result of the last get_messages
    received,      \* MessageBoard specification: all a polling reader has been returned
    stateFile,     \* ORCHESTRATOR_STATE_FILE: None, or what the last write left
    saving,        \* per task: the state dict its worker's save_state has built
    savedTerminal, \* tasks that were Completed or Failed when a save_state began
    lastSave       \* the session the latest save_state call read, and its dict

cfgVars == <<agent_count, max_retries, test_mode, rich>>
taskVars == <<tasks, pc, attempts, exc, notified, procs>>
boardVars == <<messages, lock, now>>
runVars == <<runPc, runError, handled, caught, synthCount, report>>
clientVars == <<bpc, posted, since, got, received>>
saveVars == <<stateFile, saving, savedTerminal, lastSave>>
vars == <<cfgVars, taskVars, boardVars, runVars, clientVars, saveVars>>

\* ---------------------------------------------------------------- clock
\* A time is <<seconds, microseconds>>. datetime.now().isoformat() prints the
\* fixed-width date-and-time field and, only when the microsecond is not 0,
\* a "." and the fixed-width microsecond field. Each fixed-width field is one
\* symbol here, ordered as its digits are.
Times == (0..MaxSec) \X (0..MaxMicro)
TimeLess(a, b) == a[1] < b[1] \/ (a[1] = b[1] /\ a[2] < b[2])
Dot == 46
Isoformat(t) == IF t[2] = 0 THEN <<t[1]>> ELSE <<t[1], Dot, t[2]>>

\* Python's str "<": the first differing character decides, and a proper
\* prefix is smaller.
RECURSIVE StrLess(_, _)
StrLess(a, b) ==
    IF b = <<>> THEN FALSE
    ELSE IF a = <<>> THEN TRUE
    ELSE IF Head(a) # Head(b) THEN Head(a) < Head(b)
    ELSE StrLess(Tail(a), Tail(b))

\* ---------------------------------------------------------------- MessageBoard
AgentMessage(from_agent, content, t, msg_type) ==
    [from_agent |-> from_agent, content |-> content,
     timestamp |-> Isoformat(t), msg_type |-> msg_type]

\* Mutant of Post: the message is inserted at the head of the list.
PostPrepend(board, from_agent, content, msg_type, t) ==
    <<AgentMessage(from_agent, content, t, msg_type)>> \o board

\* Mutant of Post: the list is assigned instead of appended to.
PostReplace(board, from_agent, content, msg_type, t) ==
    <<AgentMessage(from_agent, content, t, msg_type)>>

\* The body of MessageBoard.post under the lock.
Post(board, from_agent, content, msg_type, t) ==
    Append(board, AgentMessage(from_agent, content, t, msg_type))

\* Optional[str] is a sequence of zero (None) or one string.
None == <<>>
Some(str) == <<str>>

\* Mutant of GetMessages: the bound is compared with ">=".
GetMessagesInclusive(board, snc) ==
    IF snc # None /\ snc[1] # <<>>
    THEN SelectSeq(board, LAMBDA m : ~StrLess(m.timestamp, snc[1]))
    ELSE board

GetMessages(board, snc) ==
    IF snc # None /\ snc[1] # <<>>
    THEN SelectSeq(board, LAMBDA m : StrLess(snc[1], m.timestamp))
    ELSE board

\* Mutant of GetFindings: the list is returned without the test of msg_type.
GetFindingsUnfiltered(board) == board

\* get_findings: the messages of type "finding", in list order.
GetFindings(board) == SelectSeq(board, LAMBDA m : m.msg_type = "finding")

\* ---------------------------------------------------------------- AgentTask
\* agent_map of initialize_tasks: the name of task i is "<emoji> <agent>".
AgentMap == <<"security-auditor", "backend-specialist", "frontend-specialist",
              "test-engineer", "devops-engineer">>
PerspectiveMap == <<"Security & Architecture", "Backend & API", "Frontend & UX",
                    "Testing & QA", "DevOps & Performance">>

\* Mutant of CatalogIndex: past the end of agent_map the last entry is used.
CatalogIndexClamped(i) == IF i > Len(AgentMap) THEN Len(AgentMap) ELSE i

\* agent_map[i % len(agent_map)] for the i-th task, counted from 1 here.
CatalogIndex(i) == ((i - 1) % Len(AgentMap)) + 1

AgentName(i) == AgentMap[CatalogIndex(i)]

\* sub_prompt: "As <agent>, analyze from <perspective> perspective: <main_prompt>".
SubPrompt(i) ==
    [agent |-> AgentMap[CatalogIndex(i)], perspective |-> PerspectiveMap[CatalogIndex(i)]]

NewTask(i, retries) ==
    [name |-> AgentName(i), prompt |-> SubPrompt(i), status |-> PENDING,
     result |-> EmptyText, error |-> EmptyText, attempt |-> 0, max_retries |-> retries]

\* The statuses that end a task.
Terminal(task) == task.status \in {COMPLETED, FAILED}

\* Texts the program and its collaborators produce.
MockResult == T("MOCK RESULT ... Found 3 potential improvements.", 100)
SimulatedFailure == T("Simulated failure", 17)
TimedOut == T("Execution timed out (5 min)", 27)
LaunchError == T("[Errno 2] No such file or directory: 'claude'", 45)
CallbackError == T("[Errno 28] No space left on device", 34)
CleanStdout == T("No defects detected.", 20)
IssueStdout == T("Found an Issue in the login flow.", 33)
PartialStdout == T("Scanning for issues ... aborted", 31)
LongStderr == T("engine traceback ...", 600)

\* Mutant of HasKeyword: the test without lower(), which misses "Issue".
HasKeywordCaseSensitive(t) == t.body \in {PartialStdout.body}

\* "issue" in result.lower() or "problem" in result.lower(), over the texts above.
HasKeyword(t) == t.body \in {IssueStdout.body, PartialStdout.body}

\* What one call of the external engine can do (_real_execute): exit with a
\* return code, stdout and stderr; exceed the timeout; or fail to launch.
RealOutcomes ==
    { [kind |-> "exit", rc |-> 0, stdout |-> o, stderr |-> EmptyText] :
          o \in {EmptyText, CleanStdout, IssueStdout} }
    \cup { [kind |-> "exit", rc |-> 1, stdout |-> PartialStdout, stderr |-> LongStderr],
           [kind |-> "exit", rc |-> 1, stdout |-> EmptyText, stderr |-> EmptyText],
           [kind |-> "timeout", rc |-> 0, stdout |-> EmptyText, stderr |-> EmptyText],
           [kind |-> "oserror", rc |-> 0, stdout |-> EmptyText, stderr |-> EmptyText] }

\* Mutant of RealExecute: TimeoutExpired is handled without process.kill().
RealExecuteNoKill(task, o) ==
    IF o.kind = "exit"
    THEN IF o.rc # 0
         THEN [ret |-> "false", result |-> o.stdout, error |-> o.stderr, proc |-> "exited"]
         ELSE [ret |-> "true", result |-> o.stdout, error |-> task.error, proc |-> "exited"]
    ELSE IF o.kind = "timeout"
    THEN [ret |-> "false", result |-> task.result, error |-> TimedOut, proc |-> "running"]
    ELSE [ret |-> "false", result |-> task.result, error |-> LaunchError, proc |-> "none"]

\* _real_execute: the returned flag, the task fields it leaves, and what
\* became of the process it started: it exited within the timeout, it was
\* killed after TimeoutExpired, or Popen raised and there is none.
RealExecute(task, o) ==
    IF o.kind = "exit"
    THEN IF o.rc # 0
         THEN [ret |-> "false", result |-> o.stdout, error |-> o.stderr, proc |-> "exited"]
         ELSE [ret |-> "true", result |-> o.stdout, error |-> task.error, proc |-> "exited"]
    ELSE IF o.kind = "timeout"
    THEN [ret |-> "false", result |-> task.result, error |-> TimedOut, proc |-> "killed"]
    ELSE [ret |-> "false", result |-> task.result, error |-> LaunchError, proc |-> "none"]

\* Mutant of MockOutcomes: the random draw can fail any attempt.
MockOutcomesAnyAttempt(task, hasCallback) ==
    {"ok", "fail"} \cup (IF hasCallback THEN {"raise"} ELSE {})

\* What one _mock_execute call can do: the progress callback raises (only
\* when one is set), the random draw fails the first attempt, or it succeeds.
MockOutcomes(task, hasCallback) ==
    {"ok"} \cup (IF task.attempt = 1 THEN {"fail"} ELSE {})
           \cup (IF hasCallback THEN {"raise"} ELSE {})

MockExecute(task, o) ==
    IF o = "raise"
    THEN [ret |-> "raise", result |-> task.result, error |-> task.error, proc |-> "none"]
    ELSE IF o = "fail"
    THEN [ret |-> "false", result |-> task.result, error |-> SimulatedFailure, proc |-> "none"]
    ELSE [ret |-> "true", result |-> MockResult, error |-> task.error, proc |-> "none"]

\* The outcomes of the call made by one attempt (execute, lines 141-144).
AttemptResults(task, testMode, hasCallback) ==
    IF testMode
    THEN { MockExecute(task, o) : o \in MockOutcomes(task, hasCallback) }
    ELSE { RealExecute(task, o) : o \in RealOutcomes }

\* Message contents are <<text, number>> (0 when the text has no number).
CompletedMsg == <<"Completed analysis", 0>>
FindingMsg == <<"Found potential issues", 0>>
RetryingMsg(n) == <<"Retrying (attempt n)", n>>
ExhaustedMsg(n) == <<"Failed after n retries", n>>

\* Mutant of LoopContinues: the loop test written with "<".
LoopContinuesStrict(task) == task.attempt < task.max_retries

\* The loop test and the head of the loop body of execute (lines 135-138).
LoopContinues(task) == task.attempt <= task.max_retries
BeginAttempt(task) ==
    [task EXCEPT !.attempt = @ + 1,
                 !.status = IF task.attempt + 1 = 1 THEN RUNNING ELSE RETRYING]

\* ---------------------------------------------------------------- save_state
\* Fixed at Orchestrator.__init__ and never assigned again.
SessionId == "uuid4"
MainPrompt == "main_prompt"
SnippetCap == 200

\* One entry of state["tasks"] (lines 288-297). The id is the task's place in
\* the list; started_at and ended_at are not part of the model.
TaskSummary(task) ==
    [name |-> task.name, status |-> task.status, attempt |-> task.attempt,
     result_snippet |-> IF Truthy(task.result) THEN Slice(task.result, SnippetCap)
                        ELSE EmptyText,
     error |-> task.error]

\* Mutant of SaveState: every task entry carries the time of the snapshot.
SaveStateStamped(ts, board, t) ==
    [session_id |-> SessionId,
     timestamp |-> Isoformat(t),
     main_prompt |-> MainPrompt,
     tasks |-> [i \in 1..Len(ts) |->
                   [name |-> ts[i].name, status |-> ts[i].status,
                    attempt |-> ts[i].attempt, result_snippet |-> Isoformat(t),
                    error |-> ts[i].error]],
     messages |-> [k \in 1..Len(board) |->
                      [from |-> board[k].from_agent, content |-> board[k].content,
                       type |-> board[k].msg_type, timestamp |-> board[k].timestamp]]]

\* The dict save_state builds from the session (lines 283-307).
SaveState(ts, board, t) ==
    [session_id |-> SessionId,
     timestamp |-> Isoformat(t),
     main_prompt |-> MainPrompt,
     tasks |-> [i \in 1..Len(ts) |-> TaskSummary(ts[i])],
     messages |-> [k \in 1..Len(board) |->
                      [from |-> board[k].from_agent, content |-> board[k].content,
                       type |-> board[k].msg_type, timestamp |-> board[k].timestamp]]]

\* write_text (line 308) opens the file for writing, which empties it, and
\* writes the text. A write that succeeds leaves the whole text; one that
\* raises leaves the file as it was (the open failed) or holding only a
\* part of the new text.
WholeFile(state) == Some([complete |-> TRUE, state |-> state])
FailedWrite(file, state) == {file, Some([complete |-> FALSE, state |-> state])}

\* A save_state call has read the session and built its dict.
SaveCalled(state) ==
    /\ savedTerminal' = savedTerminal \cup {j \in DOMAIN tasks : Terminal(tasks[j])}
    /\ lastSave' = Some([tasks |-> tasks, messages |-> messages, state |-> state])

\* save_state run from start to end by the main thread (line 411).
SaveStateCall ==
    /\ SaveCalled(SaveState(tasks, messages, now))
    /\ stateFile' = WholeFile(SaveState(tasks, messages, now))
    /\ saving' = saving

\* A worker thread starts execute, or comes back to the loop test.
ExecuteLoop(i) ==
    /\ i \in DOMAIN tasks
    /\ pc[i] \in {"queued", "loop"}
    /\ IF LoopContinues(tasks[i])
       THEN /\ tasks' = [tasks EXCEPT ![i] = BeginAttempt(@)]
            /\ pc' = [pc EXCEPT ![i] = "call"]
       ELSE /\ pc' = [pc EXCEPT ![i] = "finish"]
            /\ UNCHANGED tasks
    /\ UNCHANGED <<attempts, exc, notified, procs, cfgVars, boardVars, runVars, clientVars,
                   saveVars>>

\* Mutant of AfterAttempt: no break after a successful attempt, so execute
\* goes back to the loop test.
AfterAttemptNoBreak(task, r, board, t) ==
    LET t1 == [task EXCEPT !.result = r.result, !.error = r.error] IN
    IF r.ret = "true"
    THEN [task |-> [t1 EXCEPT !.status = COMPLETED],
          board |-> Post(board, t1.name, CompletedMsg, "info", t),
          next |-> "loop"]
    ELSE IF t1.attempt <= t1.max_retries
    THEN [task |-> t1, board |-> board, next |-> "sleep"]
    ELSE [task |-> [t1 EXCEPT !.status = FAILED], board |-> board, next |-> "loop"]

\* Mutant of AfterAttempt: a successful attempt resets the task's error.
AfterAttemptClearsError(task, r, board, t) ==
    LET t1 == [task EXCEPT !.result = r.result, !.error = r.error] IN
    IF r.ret = "true"
    THEN [task |-> [t1 EXCEPT !.status = COMPLETED, !.error = EmptyText],
          board |-> IF HasKeyword(t1.result)
                    THEN Post(Post(board, t1.name, CompletedMsg, "info", t),
                              t1.name, FindingMsg, "finding", t)
                    ELSE Post(board, t1.name, CompletedMsg, "info", t),
          next |-> "finish"]
    ELSE IF r.ret = "false"
    THEN IF t1.attempt <= t1.max_retries
         THEN [task |-> t1,
               board |-> Post(board, t1.name, RetryingMsg(t1.attempt + 1), "warning", t),
               next |-> "sleep"]
         ELSE [task |-> [t1 EXCEPT !.status = FAILED],
               board |-> Post(board, t1.name, ExhaustedMsg(t1.max_retries), "warning", t),
               next |-> "loop"]
    ELSE LET t2 == [t1 EXCEPT !.error = CallbackError] IN
         IF t2.attempt <= t2.max_retries
         THEN [task |-> t2, board |-> board, next |-> "sleep"]
         ELSE [task |-> [t2 EXCEPT !.status = FAILED], board |-> board, next |-> "loop"]

\* The task and the board after an attempt's call returned r (lines 146-171).
AfterAttempt(task, r, board, t) ==
    LET t1 == [task EXCEPT !.result = r.result, !.error = r.error] IN
    IF r.ret = "true"
    THEN [task |-> [t1 EXCEPT !.status = COMPLETED],
          board |-> IF HasKeyword(t1.result)
                    THEN Post(Post(board, t1.name, CompletedMsg, "info", t),
                              t1.name, FindingMsg, "finding", t)
                    ELSE Post(board, t1.name, CompletedMsg, "info", t),
          next |-> "finish"]
    ELSE IF r.ret = "false"
    THEN IF t1.attempt <= t1.max_retries
         THEN [task |-> t1,
               board |-> Post(board, t1.name, RetryingMsg(t1.attempt + 1), "warning", t),
               next |-> "sleep"]
         ELSE [task |-> [t1 EXCEPT !.status = FAILED],
               board |-> Post(board, t1.name, ExhaustedMsg(t1.max_retries), "warning", t),
               next |-> "loop"]
    ELSE LET t2 == [t1 EXCEPT !.error = CallbackError] IN
         IF t2.attempt <= t2.max_retries
         THEN [task |-> t2, board |-> board, next |-> "sleep"]
         ELSE [task |-> [t2 EXCEPT !.status = FAILED], board |-> board, next |-> "loop"]

\* One attempt: the call and what execute does with its outcome. On the Rich
\* path _mock_execute runs the progress callback (update_display, hence
\* save_state) before it draws the outcome; a callback that raises ends the
\* call, after none, a part or the whole of a state-file write.
Attempt(i) ==
    /\ i \in DOMAIN tasks
    /\ pc[i] = "call"
    /\ lock = 0
    /\ \E r \in AttemptResults(tasks[i], test_mode, rich) :
          LET a == AfterAttempt(tasks[i], r, messages, now)
              state == SaveState(tasks, messages, now) IN
          /\ tasks' = [tasks EXCEPT ![i] = a.task]
          /\ messages' = a.board
          /\ pc' = [pc EXCEPT ![i] = a.next]
          /\ attempts' = [attempts EXCEPT ![i] = Append(@, r.ret)]
          /\ procs' = [procs EXCEPT ![i] = r.proc]
          /\ IF test_mode /\ rich
             THEN /\ notified' = [notified EXCEPT ![i] = @ \cup {tasks[i].status}]
                  /\ SaveCalled(state)
                  /\ stateFile' \in IF r.ret = "raise"
                                    THEN FailedWrite(stateFile, state) \cup {WholeFile(state)}
                                    ELSE {WholeFile(state)}
             ELSE UNCHANGED <<notified, stateFile, savedTerminal, lastSave>>
    /\ UNCHANGED <<exc, lock, now, saving, cfgVars, runVars, clientVars>>

\* time.sleep(1) before the next attempt.
Sleep(i) ==
    /\ i \in DOMAIN tasks
    /\ pc[i] = "sleep"
    /\ pc' = [pc EXCEPT ![i] = "loop"]
    /\ UNCHANGED <<tasks, attempts, exc, notified, procs, cfgVars, boardVars, runVars,
                   clientVars, saveVars>>

\* The end of execute on the Rich path (lines 175-176): the callback
\* update_display refreshes the display and enters save_state, which reads
\* the session into its dict (lines 283-307).
UpdateDisplay(i) ==
    /\ i \in DOMAIN tasks
    /\ pc[i] = "finish"
    /\ rich
    /\ pc' = [pc EXCEPT ![i] = "saving"]
    /\ saving' = [saving EXCEPT ![i] = Some(SaveState(tasks, messages, now))]
    /\ SaveCalled(SaveState(tasks, messages, now))
    /\ notified' = [notified EXCEPT ![i] = @ \cup {tasks[i].status}]
    /\ UNCHANGED <<tasks, attempts, exc, procs, stateFile, cfgVars, boardVars, runVars,
                   clientVars>>

\* The end of execute (lines 173-178): without a callback execute returns;
\* with one, save_state writes its dict to the state file and returns.
FinishReturn(i) ==
    /\ i \in DOMAIN tasks
    /\ IF rich
       THEN /\ pc[i] = "saving"
            /\ stateFile' = WholeFile(saving[i][1])
            /\ saving' = [saving EXCEPT ![i] = None]
       ELSE /\ pc[i] = "finish"
            /\ UNCHANGED <<stateFile, saving>>
    /\ pc' = [pc EXCEPT ![i] = "returned"]
    /\ UNCHANGED <<tasks, attempts, exc, notified, procs, savedTerminal, lastSave, cfgVars,
                   boardVars, runVars, clientVars>>

\* The end of execute: the callback (update_display: live.update, save_state)
\* raises at the state-file write, and the exception leaves execute.
FinishRaise(i) ==
    /\ i \in DOMAIN tasks
    /\ pc[i] = "saving"
    /\ rich
    /\ pc' = [pc EXCEPT ![i] = "raised"]
    /\ exc' = [exc EXCEPT ![i] = CallbackError]
    /\ stateFile' \in FailedWrite(stateFile, saving[i][1])
    /\ saving' = [saving EXCEPT ![i] = None]
    /\ UNCHANGED <<tasks, attempts, notified, procs, savedTerminal, lastSave, cfgVars,
                   boardVars, runVars, clientVars>>

Finished(i) == pc[i] \in {"returned", "raised"}

\* ---------------------------------------------------------------- Orchestrator
\* initialize_tasks: agent_count new tasks appended to the task list.
InitializeTasks(ts, count, retries) ==
    ts \o [i \in 1..count |-> NewTask(i, retries)]

\* One "### name" section of the report per task, in list order (lines 435-459).
Section(task) ==
    [name |-> task.name,
     emoji |-> IF task.status = COMPLETED THEN "ok" ELSE "cross",
     status |-> task.status,
     attempts |-> task.attempt,
     output |-> IF Truthy(task.result) THEN Slice(task.result, ReportOutputCap)
                ELSE T("(no output)", 11),
     error |-> IF Truthy(task.error) THEN Some(Slice(task.error, ReportErrorCap))
               ELSE None]

\* Mutant of Synthesize: the sections follow the order in which the tasks
\* finished instead of the task list.
SynthesizeCompletionOrder(ts, board) ==
    [sections |-> [k \in 1..Len(handled) |-> Section(ts[handled[k]])],
     findings |-> <<>>]

Synthesize(ts, board) ==
    [sections |-> [i \in 1..Len(ts) |-> Section(ts[i])],
     findings |-> [k \in 1..Len(GetFindings(board)) |->
                      <<GetFindings(board)[k].from_agent, GetFindings(board)[k].content>>]]

NoReport == [sections |-> <<>>, findings |-> <<>>]

\* Mutant of RunStart: a pool that accepts max_workers <= 0, so that run()
\* goes on to the wait loop.
RunStartLenient ==
    /\ runPc = "init"
    /\ tasks' = InitializeTasks(tasks, agent_count, max_retries)
    /\ attempts' = [i \in 1..Len(tasks') |-> <<>>]
    /\ exc' = [i \in 1..Len(tasks') |-> EmptyText]
    /\ notified' = [i \in 1..Len(tasks') |-> {}]
    /\ procs' = [i \in 1..Len(tasks') |-> "none"]
    /\ saving' = [i \in 1..Len(tasks') |-> None]
    /\ runPc' = "waiting"
    /\ runError' = runError
    /\ pc' = [i \in 1..Len(tasks') |-> "queued"]
    /\ UNCHANGED <<handled, caught, synthCount, report, stateFile, savedTerminal, lastSave,
                   cfgVars, boardVars, clientVars>>

\* run() up to the wait loop: the tasks are built, the pool is created and
\* every task is submitted. ThreadPoolExecutor(max_workers <= 0) raises.
RunStart ==
    /\ runPc = "init"
    /\ tasks' = InitializeTasks(tasks, agent_count, max_retries)
    /\ attempts' = [i \in 1..Len(tasks') |-> <<>>]
    /\ exc' = [i \in 1..Len(tasks') |-> EmptyText]
    /\ notified' = [i \in 1..Len(tasks') |-> {}]
    /\ procs' = [i \in 1..Len(tasks') |-> "none"]
    /\ saving' = [i \in 1..Len(tasks') |-> None]
    /\ IF agent_count <= 0
       THEN /\ runPc' = "raised"
            /\ runError' = "ValueError"
            /\ pc' = [i \in 1..Len(tasks') |-> "new"]
       ELSE /\ runPc' = "waiting"
            /\ runError' = runError
            /\ pc' = [i \in 1..Len(tasks') |-> "queued"]
    /\ UNCHANGED <<handled, caught, synthCount, report, stateFile, savedTerminal, lastSave,
                   cfgVars, boardVars, clientVars>>

InHandled(i) == \E k \in 1..Len(handled) : handled[k] = i

\* Mutant of WaitNext: future.result() is called outside a try block, so a
\* task's exception leaves the loop.
WaitNextUncaught(i) ==
    /\ runPc = "waiting"
    /\ i \in DOMAIN tasks
    /\ Finished(i)
    /\ ~InHandled(i)
    /\ handled' = Append(handled, i)
    /\ caught' = caught
    /\ runPc' = IF pc[i] = "raised" THEN "unwinding" ELSE runPc
    /\ runError' = IF pc[i] = "raised" THEN "task exception" ELSE runError
    /\ IF rich THEN UNCHANGED saveVars ELSE SaveStateCall
    /\ UNCHANGED <<synthCount, report, cfgVars, taskVars, boardVars, clientVars>>

\* Mutant of WaitNext: the loop of the simple path does not call save_state.
WaitNextNoSave(i) ==
    /\ runPc = "waiting"
    /\ i \in DOMAIN tasks
    /\ Finished(i)
    /\ ~InHandled(i)
    /\ handled' = Append(handled, i)
    /\ caught' = IF pc[i] = "raised" THEN caught \cup {i} ELSE caught
    /\ UNCHANGED <<runPc, runError, synthCount, report, cfgVars, taskVars, boardVars,
                   clientVars, saveVars>>

\* Mutant of WaitNext: the loop marks a task whose future raised as Failed.
WaitNextMarksFailed(i) ==
    /\ runPc = "waiting"
    /\ i \in DOMAIN tasks
    /\ Finished(i)
    /\ ~InHandled(i)
    /\ handled' = Append(handled, i)
    /\ caught' = IF pc[i] = "raised" THEN caught \cup {i} ELSE caught
    /\ tasks' = IF pc[i] = "raised" THEN [tasks EXCEPT ![i].status = FAILED] ELSE tasks
    /\ IF rich THEN UNCHANGED saveVars ELSE SaveStateCall
    /\ UNCHANGED <<runPc, runError, synthCount, report, cfgVars, pc, attempts, exc,
                   notified, procs, boardVars, clientVars>>

\* One round of the as_completed loop: a finished future is yielded, its
\* exception (if any) is caught and printed, and (simple path, line 411)
\* save_state writes the state file.
WaitNext(i) ==
    /\ runPc = "waiting"
    /\ i \in DOMAIN tasks
    /\ Finished(i)
    /\ ~InHandled(i)
    /\ handled' = Append(handled, i)
    /\ caught' = IF pc[i] = "raised" THEN caught \cup {i} ELSE caught
    /\ IF rich THEN UNCHANGED saveVars ELSE SaveStateCall
    /\ UNCHANGED <<runPc, runError, synthCount, report, cfgVars, taskVars, boardVars,
                   clientVars>>

\* The same round on the simple path when the state-file write raises: the
\* exception leaves the loop, and the pool's exit first joins the workers.
WaitNextSaveFails(i) ==
    /\ runPc = "waiting"
    /\ ~rich
    /\ i \in DOMAIN tasks
    /\ Finished(i)
    /\ ~InHandled(i)
    /\ handled' = Append(handled, i)
    /\ caught' = caught
    /\ runPc' = "unwinding"
    /\ runError' = "OSError"
    /\ SaveCalled(SaveState(tasks, messages, now))
    /\ stateFile' \in FailedWrite(stateFile, SaveState(tasks, messages, now))
    /\ saving' = saving
    /\ UNCHANGED <<synthCount, report, cfgVars, taskVars, boardVars, clientVars>>

AllFinished == \A i \in DOMAIN tasks : Finished(i)

\* The pool's exit after an exception left the wait loop (a failed
\* save_state, an interrupt): the workers are joined and run() raises.
RunAbort ==
    /\ runPc = "unwinding"
    /\ AllFinished
    /\ runPc' = "raised"
    /\ UNCHANGED <<runError, handled, caught, synthCount, report, cfgVars, taskVars,
                   boardVars, clientVars, saveVars>>

\* The wait loop is over: the pool exits and run() calls synthesize().
RunFinish ==
    /\ runPc = "waiting"
    /\ Len(handled) = Len(tasks)
    /\ lock = 0
    /\ report' = Synthesize(tasks, messages)
    /\ synthCount' = synthCount + 1
    /\ runPc' = "done"
    /\ UNCHANGED <<runError, handled, caught, cfgVars, taskVars, boardVars, clientVars, saveVars>>

\* ---------------------------------------------------------------- specification
Init ==
    /\ agent_count \in 0..MaxAgents
    /\ max_retries \in -2..MaxRetries
    /\ test_mode \in BOOLEAN
    /\ rich \in BOOLEAN
    /\ tasks = <<>>
    /\ pc = <<>>
    /\ attempts = <<>>
    /\ exc = <<>>
    /\ notified = <<>>
    /\ procs = <<>>
    /\ messages = <<>>
    /\ lock = 0
    /\ now = <<0, 0>>
    /\ runPc = "init"
    /\ runError = ""
    /\ handled = <<>>
    /\ caught = {}
    /\ synthCount = 0
    /\ report = NoReport
    /\ bpc = <<>>
    /\ posted = <<>>
    /\ since = None
    /\ got = <<>>
    /\ received = <<>>
    /\ stateFile = None
    /\ saving = <<>>
    /\ savedTerminal = {}
    /\ lastSave = None

TaskStep(i) ==
    \/ ExecuteLoop(i)
    \/ Attempt(i)
    \/ Sleep(i)
    \/ UpdateDisplay(i)
    \/ FinishReturn(i)
    \/ FinishRaise(i)

RunStep ==
    \/ RunStart
    \/ \E i \in 1..MaxAgents : WaitNext(i)
    \/ \E i \in 1..MaxAgents : WaitNextSaveFails(i)
    \/ RunAbort
    \/ RunFinish

Next ==
    \/ \E i \in 1..MaxAgents : TaskStep(i)
    \/ RunStep

Spec == Init /\ [][Next]_vars

\* One task on its own: a run with --agents 1.
TaskInit == Init /\ agent_count = 1

TaskSpec == TaskInit /\ [][Next]_vars

\* One task in simulation mode: a run with --test --agents 1.
SimTaskInit == TaskInit /\ test_mode

SimTaskSpec == SimTaskInit /\ [][Next]_vars

\* Simulation mode only: runs started with --test.
SimInit == Init /\ test_mode

SimSpec == SimInit /\ [][Next]_vars

\* ---------------------------------------------------------------- MessageBoard clients
\* The board on its own: NumPosters threads that each call post()
\* PostsPerPoster times, a reader that calls get_messages(), and the clock.
Posters == 1..NumPosters

\* post(): "with self._lock" is entered.
PostAcquire(p) ==
    /\ p \in DOMAIN bpc
    /\ bpc[p] = "idle"
    /\ posted[p] < PostsPerPoster
    /\ lock = 0
    /\ lock' = p
    /\ bpc' = [bpc EXCEPT ![p] = "locked"]
    /\ UNCHANGED <<messages, now, posted, since, got, received, cfgVars, taskVars, runVars, saveVars>>

\* post(): the message is built (its timestamp is read here) and appended.
PostAppend(p) ==
    /\ p \in DOMAIN bpc
    /\ bpc[p] = "locked"
    /\ messages' = Post(messages, AgentName(p), <<"message", posted[p] + 1>>, "info", now)
    /\ bpc' = [bpc EXCEPT ![p] = "appended"]
    /\ UNCHANGED <<lock, now, posted, since, got, received, cfgVars, taskVars, runVars, saveVars>>

\* Mutant of PostRelease: post() returns without giving up the lock.
PostReleaseKeepsLock(p) ==
    /\ p \in DOMAIN bpc
    /\ bpc[p] = "appended"
    /\ lock' = lock
    /\ bpc' = [bpc EXCEPT ![p] = "idle"]
    /\ posted' = [posted EXCEPT ![p] = @ + 1]
    /\ UNCHANGED <<messages, now, since, got, received, cfgVars, taskVars, runVars, saveVars>>

\* post(): the with block is left and the call returns.
PostRelease(p) ==
    /\ p \in DOMAIN bpc
    /\ bpc[p] = "appended"
    /\ lock' = 0
    /\ bpc' = [bpc EXCEPT ![p] = "idle"]
    /\ posted' = [posted EXCEPT ![p] = @ + 1]
    /\ UNCHANGED <<messages, now, since, got, received, cfgVars, taskVars, runVars, saveVars>>

\* The arguments a reader passes: no bound, the empty string, or a timestamp.
SinceArgs == {None, Some(<<>>)} \cup { Some(Isoformat(t)) : t \in Times }

\* get_messages(since): the whole call runs under the lock.
GetMessagesCall(snc) ==
    /\ lock = 0
    /\ since' = snc
    /\ got' = GetMessages(messages, snc)
    /\ UNCHANGED <<messages, lock, now, bpc, posted, received, cfgVars, taskVars, runVars,
                   saveVars>>

\* Time passes.
Tick ==
    /\ \E t \in Times : TimeLess(now, t) /\ now' = t
    /\ UNCHANGED <<messages, lock, clientVars, cfgVars, taskVars, runVars, saveVars>>

\* datetime.now() is the local wall clock: it is set back when the system
\* clock is adjusted or daylight saving time ends.
ClockSetBack ==
    /\ \E t \in Times : TimeLess(t, now) /\ now' = t
    /\ UNCHANGED <<messages, lock, clientVars, cfgVars, taskVars, runVars, saveVars>>

BoardInit ==
    /\ agent_count = 0
    /\ max_retries = 0
    /\ test_mode = FALSE
    /\ rich = FALSE
    /\ tasks = <<>>
    /\ pc = <<>>
    /\ attempts = <<>>
    /\ exc = <<>>
    /\ notified = <<>>
    /\ procs = <<>>
    /\ messages = <<>>
    /\ lock = 0
    /\ now = <<0, 0>>
    /\ runPc = "idle"
    /\ runError = ""
    /\ handled = <<>>
    /\ caught = {}
    /\ synthCount = 0
    /\ report = NoReport
    /\ bpc = [p \in Posters |-> "idle"]
    /\ posted = [p \in Posters |-> 0]
    /\ since = None
    /\ got = <<>>
    /\ received = <<>>
    /\ stateFile = None
    /\ saving = <<>>
    /\ savedTerminal = {}
    /\ lastSave = None

BoardNext ==
    \/ \E p \in Posters : PostAcquire(p)
    \/ \E p \in Posters : PostAppend(p)
    \/ \E p \in Posters : PostRelease(p)
    \/ \E snc \in SinceArgs : GetMessagesCall(snc)
    \/ Tick
    \/ ClockSetBack

BoardSpec == BoardInit /\ [][BoardNext]_vars

\* The posters and a reader of the full history contending for the lock,
\* while the clock stands still.
PostNext ==
    \/ \E p \in Posters : PostAcquire(p)
    \/ \E p \in Posters : PostAppend(p)
    \/ \E p \in Posters : PostRelease(p)
    \/ GetMessagesCall(None)

PostSpec == BoardInit /\ [][PostNext]_vars

\* The same under fair scheduling: a thread that can run does run.
PosterStep(p) == PostAcquire(p) \/ PostAppend(p) \/ PostRelease(p)

FairPostSpec == PostSpec /\ \A p \in Posters : WF_vars(PosterStep(p))

\* A reader that polls the board: it calls get_messages with the timestamp
\* of the last message it has been returned (with no bound as long as it has
\* none) and keeps what it is returned.
PollCall ==
    /\ lock = 0
    /\ since' = IF received = <<>> THEN None
                ELSE Some(received[Len(received)].timestamp)
    /\ got' = GetMessages(messages, since')
    /\ received' = received \o got'
    /\ UNCHANGED <<messages, lock, now, bpc, posted, cfgVars, taskVars, runVars, saveVars>>

\* The posters and the polling reader, while time passes.
PollNext ==
    \/ \E p \in Posters : PostAcquire(p)
    \/ \E p \in Posters : PostAppend(p)
    \/ \E p \in Posters : PostRelease(p)
    \/ PollCall
    \/ Tick

PollSpec == BoardInit /\ [][PollNext]_vars

\* get_messages on its own: a board of at most MaxBoard messages posted at
\* any times (the clock may have been set back between posts), read once.
BoardsOf(n) ==
    UNION { { [j \in 1..k |-> AgentMessage(AgentName(1), <<"message", j>>, ts[j], "info")] :
                ts \in [1..k -> Times] } : k \in 0..n }

GetInit ==
    /\ agent_count = 0
    /\ max_retries = 0
    /\ test_mode = FALSE
    /\ rich = FALSE
    /\ tasks = <<>>
    /\ pc = <<>>
    /\ attempts = <<>>
    /\ exc = <<>>
    /\ notified = <<>>
    /\ procs = <<>>
    /\ messages \in BoardsOf(MaxBoard)
    /\ lock = 0
    /\ now = <<0, 0>>
    /\ runPc = "idle"
    /\ runError = ""
    /\ handled = <<>>
    /\ caught = {}
    /\ synthCount = 0
    /\ report = NoReport
    /\ bpc = <<>>
    /\ posted = <<>>
    /\ since = None
    /\ got = <<>>
    /\ received = <<>>
    /\ stateFile = None
    /\ saving = <<>>
    /\ savedTerminal = {}
    /\ lastSave = None

GetNext == \E snc \in SinceArgs : GetMessagesCall(snc)

GetSpec == GetInit /\ [][GetNext]_vars

\* Runs in simulation mode with --retries 0 while the clock moves on: the
\* save_state calls of one run, made at different times. With no retry left
\* after the first attempt, execute never reaches its sleep.
SaveInit == Init /\ test_mode /\ max_retries = 0

OneShotNext ==
    \/ \E i \in 1..MaxAgents :
          \/ ExecuteLoop(i)
          \/ Attempt(i)
          \/ UpdateDisplay(i)
          \/ FinishReturn(i)
          \/ FinishRaise(i)
    \/ RunStep

SaveNext == OneShotNext \/ Tick

SaveSpec == SaveInit /\ [][SaveNext]_vars

\* The same runs with the clock standing still.
OneShotSpec == SaveInit /\ [][OneShotNext]_vars

\* The Orchestrator is used again after its run: initialize_tasks() is called
\* once more, directly or as the first step of a second run().
InitializeTasksAgain ==
    /\ runPc \in {"done", "raised"}
    /\ tasks' = InitializeTasks(tasks, agent_count, max_retries)
    /\ pc' = pc \o [k \in 1..agent_count |-> "new"]
    /\ attempts' = attempts \o [k \in 1..agent_count |-> <<>>]
    /\ exc' = exc \o [k \in 1..agent_count |-> EmptyText]
    /\ notified' = notified \o [k \in 1..agent_count |-> {}]
    /\ procs' = procs \o [k \in 1..agent_count |-> "none"]
    /\ saving' = saving \o [k \in 1..agent_count |-> None]
    /\ runPc' = "reused"
    /\ UNCHANGED <<runError, handled, caught, synthCount, report, stateFile, savedTerminal,
                   lastSave, cfgVars, boardVars, clientVars>>

ReuseNext == Next \/ InitializeTasksAgain

ReuseSpec == SimInit /\ [][ReuseNext]_vars

\* The user interrupts the run while the main thread waits in as_completed
\* and tasks are in flight: KeyboardInterrupt is raised in the main thread,
\* passes the `except Exception` of the loop and leaves the `with` block of
\* the pool, whose exit joins the worker threads (shutdown(wait=True)).
Interrupt ==
    /\ runPc = "waiting"
    /\ ~AllFinished
    /\ runPc' = "unwinding"
    /\ runError' = "KeyboardInterrupt"
    /\ UNCHANGED <<handled, caught, synthCount, report, cfgVars, taskVars, boardVars,
                   clientVars, saveVars>>

\* main() catches the KeyboardInterrupt that left run() and prints that the
\* orchestration was cancelled.
MainCancelled ==
    /\ runPc = "raised"
    /\ runError = "KeyboardInterrupt"
    /\ runPc' = "cancelled"
    /\ UNCHANGED <<runError, handled, caught, synthCount, report, cfgVars, taskVars,
                   boardVars, clientVars, saveVars>>

\* Live runs (without --test) on the simple path that the user may interrupt.
InterruptInit == Init /\ ~test_mode /\ ~rich

\* The steps of the simple path, where no task has a progress callback.
SimpleNext ==
    \/ \E i \in 1..MaxAgents :
          \/ ExecuteLoop(i)
          \/ Attempt(i)
          \/ Sleep(i)
          \/ FinishReturn(i)
    \/ RunStep

InterruptNext == SimpleNext \/ Interrupt \/ MainCancelled

InterruptSpec == InterruptInit /\ [][InterruptNext]_vars

\* Live runs on the simple path with --retries 0, where each task makes one
\* call of the engine and execute never sleeps.
LiveInit == Init /\ ~test_mode /\ ~rich /\ max_retries = 0

LiveNext ==
    \/ \E i \in 1..MaxAgents :
          \/ ExecuteLoop(i)
          \/ Attempt(i)
          \/ FinishReturn(i)
    \/ RunStep

LiveSpec == LiveInit /\ [][LiveNext]_vars

\* initialize_tasks() called on a fresh Orchestrator by its owner, ahead of
\* run(), which calls it again.
InitializeTasksFirst ==
    /\ runPc = "init"
    /\ tasks = <<>>
    /\ agent_count > 0
    /\ tasks' = InitializeTasks(tasks, agent_count, max_retries)
    /\ pc' = pc \o [k \in 1..agent_count |-> "new"]
    /\ attempts' = attempts \o [k \in 1..agent_count |-> <<>>]
    /\ exc' = exc \o [k \in 1..agent_count |-> EmptyText]
    /\ notified' = notified \o [k \in 1..agent_count |-> {}]
    /\ procs' = procs \o [k \in 1..agent_count |-> "none"]
    /\ saving' = saving \o [k \in 1..agent_count |-> None]
    /\ UNCHANGED <<runPc, runError, handled, caught, synthCount, report, stateFile,
                   savedTerminal, lastSave, cfgVars, boardVars, clientVars>>

\* Orchestrators of up to MaxCatalogAgents agents, more than agent_map has
\* entries, up to the submission of their tasks.
CatalogInit ==
    /\ agent_count \in 0..MaxCatalogAgents
    /\ max_retries \in -2..MaxRetries
    /\ test_mode \in BOOLEAN
    /\ rich \in BOOLEAN
    /\ tasks = <<>>
    /\ pc = <<>>
    /\ attempts = <<>>
    /\ exc = <<>>
    /\ notified = <<>>
    /\ procs = <<>>
    /\ messages = <<>>
    /\ lock = 0
    /\ now = <<0, 0>>
    /\ runPc = "init"
    /\ runError = ""
    /\ handled = <<>>
    /\ caught = {}
    /\ synthCount = 0
    /\ report = NoReport
    /\ bpc = <<>>
    /\ posted = <<>>
    /\ since = None
    /\ got = <<>>
    /\ received = <<>>
    /\ stateFile = None
    /\ saving = <<>>
    /\ savedTerminal = {}
    /\ lastSave = None

CatalogNext == InitializeTasksFirst \/ RunStart

CatalogSpec == CatalogInit /\ [][CatalogNext]_vars

\* execute() is called again on a task whose execute() has ended, after the
\* run: the call starts at the loop test of line 135, as every call does.
ExecuteAgain(i) ==
    /\ runPc = "done"
    /\ i \in DOMAIN tasks
    /\ Finished(i)
    /\ pc' = [pc EXCEPT ![i] = "loop"]
    /\ UNCHANGED <<tasks, attempts, exc, notified, procs, cfgVars, boardVars, runVars,
                   clientVars, saveVars>>

RerunNext == Next \/ \E i \in 1..MaxAgents : ExecuteAgain(i)

\* One task whose execute() may be called again once the run is over.
RerunSpec == TaskInit /\ [][RerunNext]_vars

\* Fair scheduling: every worker thread and the main thread keep running.
FairSpec ==
    /\ Spec
    /\ \A i \in 1..MaxAgents : WF_vars(TaskStep(i))
    /\ WF_vars(RunStep)

\* ---------------------------------------------------------------- properties
Succeeded(i) == \E k \in 1..Len(attempts[i]) : attempts[i][k] = "true"
FirstSuccess(i) ==
    CHOOSE k \in 1..Len(attempts[i]) :
        attempts[i][k] = "true" /\ \A j \in 1..(k - 1) : attempts[i][j] # "true"

\* C1: once run() has completed on a fresh Orchestrator, the task list has
\* exactly agent_count tasks and every task is Completed or Failed.
C1_RunTerminal ==
    runPc = "done" =>
        /\ Len(tasks) = agent_count
        /\ \A i \in DOMAIN tasks : Terminal(tasks[i])

\* C2: whenever execute() has ended (returned, or left through its final
\* callback), the task is Completed or Failed, and it has not ended after a
\* failed attempt while attempt <= max_retries.
C2_ExecuteTerminal ==
    \A i \in DOMAIN tasks :
        Finished(i) =>
            /\ Terminal(tasks[i])
            /\ (tasks[i].status # COMPLETED => tasks[i].attempt > tasks[i].max_retries)

\* C3: a task that made attempts, all of which failed (False or an exception),
\* ends Failed after exactly max_retries + 1 attempts; while it still runs it
\* has made at most that many.
C3_AllAttemptsFail ==
    \A i \in DOMAIN tasks :
        /\ Len(attempts[i]) = tasks[i].attempt \/ pc[i] = "call"
        /\ (attempts[i] # <<>> /\ ~Succeeded(i)) =>
              /\ tasks[i].attempt <= tasks[i].max_retries + 1
              /\ Finished(i) =>
                    /\ tasks[i].status = FAILED
                    /\ tasks[i].attempt = tasks[i].max_retries + 1
                    /\ Len(attempts[i]) = tasks[i].max_retries + 1

\* C3 witness: a finished task whose two attempts failed, one by a False
\* return and one by an exception.
C3_Witness ==
    \E i \in DOMAIN tasks :
        /\ Finished(i)
        /\ tasks[i].status = FAILED
        /\ tasks[i].max_retries = 1
        /\ \E j, k \in 1..Len(attempts[i]) :
              attempts[i][j] = "false" /\ attempts[i][k] = "raise"

\* C4: a task whose first successful attempt is attempt k ends Completed with
\* attempt = k and a non-empty result, and makes no attempt after it.
C4_SuccessAtK ==
    \A i \in DOMAIN tasks :
        Succeeded(i) =>
            /\ tasks[i].status = COMPLETED
            /\ tasks[i].attempt = FirstSuccess(i)
            /\ Len(attempts[i]) = FirstSuccess(i)
            /\ Truthy(tasks[i].result)

\* C5: in a run of several tasks, every submitted task that is not yet
\* Completed or Failed can take a step of its own, whatever its siblings are
\* doing: nothing stops it short of a terminal status.
C5_Independent ==
    \A i \in DOMAIN tasks :
        (Len(tasks) >= 2 /\ pc[i] # "new") =>
            (Terminal(tasks[i]) \/ ENABLED TaskStep(i))

\* The same under fair scheduling, for the runs whose max_retries is not
\* negative: every submitted task eventually is Completed or Failed.
EventuallyTerminal ==
    \A i \in 1..MaxAgents :
        [](i \in DOMAIN tasks /\ pc[i] = "queued" /\ max_retries >= 0
             => <>(i \in DOMAIN tasks /\ Terminal(tasks[i])))

\* C6: an exception that escaped a task's execute() is caught by the wait
\* loop, and that task is then Failed with the exception text as its error
\* (stated for the tasks created with max_retries >= 0).
C6_EscapedException ==
    \A i \in DOMAIN tasks :
        (InHandled(i) /\ pc[i] = "raised" /\ tasks[i].max_retries >= 0) =>
            /\ i \in caught
            /\ tasks[i].status = FAILED
            /\ tasks[i].error = exc[i]

\* C7: the report has one section per task, in task creation order, showing
\* the task's final status and attempt count; a Failed task has its section,
\* with the error block holding its recorded error text (cut at the report's
\* cap) whenever that text is not empty.
C7_ReportSections ==
    runPc = "done" =>
        /\ Len(report.sections) = Len(tasks)
        /\ \A i \in DOMAIN tasks :
              /\ report.sections[i].name = AgentName(i)
              /\ report.sections[i].status = tasks[i].status
              /\ report.sections[i].attempts = tasks[i].attempt
              /\ tasks[i].status = FAILED =>
                    report.sections[i].error =
                        IF tasks[i].error.len = 0 THEN None
                        ELSE Some([body |-> tasks[i].error.body,
                                   len |-> IF tasks[i].error.len < ReportErrorCap
                                           THEN tasks[i].error.len ELSE ReportErrorCap])

\* C7 witness: the task created second finished first, and a Failed task's
\* long error is in the report.
C7_Witness ==
    /\ runPc = "done"
    /\ Len(tasks) >= 2
    /\ handled[1] = 2
    /\ \E i \in DOMAIN tasks :
          /\ tasks[i].status = FAILED
          /\ tasks[i].error.len > ReportErrorCap
          /\ report.sections[i].error # None

\* C8: synthesize() runs at most once, only after every task's execute() has
\* ended, and exactly once in every run that completes; no task outcome makes
\* run() raise (it raises only when the pool cannot be created or the state
\* file cannot be written).
C8_SynthesizeOnce ==
    /\ synthCount <= 1
    /\ (synthCount = 1) <=> (runPc = "done")
    /\ synthCount = 1 => (AllFinished /\ Len(handled) = Len(tasks))
    /\ runPc \in {"unwinding", "raised"} => runError \in {"ValueError", "OSError"}
    /\ runPc \in {"init", "waiting", "done"} => runError = ""

\* C8 witness: a completed run in which both tasks Failed, one of them by an
\* exception that escaped execute().
C8_Witness ==
    /\ runPc = "done"
    /\ synthCount = 1
    /\ Len(tasks) = 2
    /\ \A i \in DOMAIN tasks : tasks[i].status = FAILED
    /\ \E i \in DOMAIN tasks : pc[i] = "raised"

RECURSIVE SumTo(_, _)
SumTo(f, n) == IF n = 0 THEN 0 ELSE f[n] + SumTo(f, n - 1)
Occurrences(p, k) ==
    { j \in 1..Len(messages) :
        messages[j].from_agent = AgentName(p) /\ messages[j].content = <<"message", k>> }

\* C9: every post() call that has returned left exactly one message on the
\* board, and the board holds nothing else: when all M concurrent calls have
\* returned it holds exactly M messages.
C9_NoLostPost ==
    bpc # <<>> =>
        /\ \A p \in Posters : \A k \in 1..posted[p] : Cardinality(Occurrences(p, k)) = 1
        /\ Len(messages) =
              SumTo(posted, NumPosters) + Cardinality({p \in Posters : bpc[p] = "appended"})
        /\ (\A p \in Posters : bpc[p] = "idle") => Len(messages) = SumTo(posted, NumPosters)

\* C9 witness: every poster has made all its calls, and the calls of different
\* posters interleaved on the board.
C9_Witness ==
    /\ bpc # <<>>
    /\ \A p \in Posters : bpc[p] = "idle" /\ posted[p] = PostsPerPoster
    /\ Len(messages) = NumPosters * PostsPerPoster
    /\ messages[1].from_agent # messages[2].from_agent

\* The time a timestamp string was printed from.
TimeOf(str) == CHOOSE t \in Times : Isoformat(t) = str

\* The messages of a board written strictly later than the time a bound was
\* printed from, in board order.
WrittenAfter(board, str) ==
    SelectSeq(board, LAMBDA m : TimeLess(TimeOf(str), TimeOf(m.timestamp)))

\* C10: get_messages(since=t) returns, in board order, exactly the messages
\* whose timestamp is strictly later than t; without a bound it returns the
\* whole board.
C10_GetMessages ==
    [][ \A snc \in SinceArgs :
            GetMessagesCall(snc) =>
                got' = IF snc = None THEN messages
                       ELSE IF snc[1] = <<>> THEN messages
                       ELSE WrittenAfter(messages, snc[1]) ]_vars

\* C10 witness: a call with a bound returned some of the messages and left
\* out one whose timestamp equals the bound.
C10_Witness ==
    /\ since # None
    /\ since[1] # <<>>
    /\ got = GetMessages(messages, since)
    /\ got # <<>>
    /\ \E j \in 1..Len(messages) : messages[j].timestamp = since[1]
    /\ \E j \in 1..Len(got) : Len(got[j].timestamp) # Len(since[1])

\* The messages of one sender carry that sender's call numbers in rising order.
InPostingOrder(board) ==
    \A j, k \in 1..Len(board) :
        (j < k /\ board[j].from_agent = board[k].from_agent) =>
            board[j].content[2] < board[k].content[2]

\* C11: the board is append-only: every step leaves the message list as it
\* was or adds one message at its end (so no entry is removed, changed or
\* moved), and the messages of one poster stand in the order of its calls.
C11_AppendOnly ==
    [][ /\ \/ messages' = messages
           \/ /\ Len(messages') = Len(messages) + 1
              /\ SubSeq(messages', 1, Len(messages)) = messages
        /\ InPostingOrder(messages') ]_vars

\* C11 witness: a board on which one poster's two messages are separated by
\* another poster's message, read back in full by get_messages().
C11_Witness ==
    /\ bpc # <<>>
    /\ Len(messages) >= 3
    /\ messages[1].from_agent = messages[3].from_agent
    /\ messages[1].from_agent # messages[2].from_agent
    /\ got = messages

\* A state-file write of save_state has raised: in the wait loop of the simple
\* path, in a task's final callback, or in a callback during an attempt.
SaveFailed ==
    \/ runError = "OSError"
    \/ \E i \in DOMAIN tasks :
          \/ pc[i] = "raised"
          \/ \E k \in 1..Len(attempts[i]) : attempts[i][k] = "raise"

\* C12: a failed state-file write does not abort the run: run() does not
\* raise, and once it has ended every task is Completed or Failed and
\* synthesize() has been called (stated for the runs with max_retries >= 0).
C12_SaveFailureTolerated ==
    (SaveFailed /\ max_retries >= 0) =>
        /\ runPc \notin {"unwinding", "raised"}
        /\ runPc = "done" =>
              (synthCount = 1 /\ \A i \in DOMAIN tasks : Terminal(tasks[i]))

\* The same on the Rich path alone.
SaveFailureToleratedRich == rich => C12_SaveFailureTolerated

\* The worker threads that are inside save_state, between reading the
\* session and the end of the state-file write.
InSaveSection == {i \in DOMAIN tasks : pc[i] = "saving"}

\* C13: save_state is serialized: at most one call at a time is between
\* reading the session and finishing the write of the state file (stated
\* for the runs with max_retries >= 0).
C13_SaveSerialized == max_retries >= 0 => Cardinality(InSaveSection) <= 1

\* C14: when run() returns, every task that is Completed or Failed has had a
\* save_state call begin after it reached that status, on both paths.
C14_SavedAfterTerminal ==
    runPc = "done" =>
        \A i \in DOMAIN tasks : Terminal(tasks[i]) => i \in savedTerminal

\* C14 witness: a finished run of the simple path in which the second task
\* ended first and Failed, the first Completed, and both were saved after.
C14_Witness ==
    /\ runPc = "done"
    /\ ~rich
    /\ Len(tasks) = 2
    /\ handled[1] = 2
    /\ tasks[1].status = COMPLETED
    /\ tasks[2].status = FAILED
    /\ savedTerminal = {1, 2}

\* The same for the Rich path: both final callbacks entered save_state, and
\* the write of one of them raised.
SavedAfterTerminalRich ==
    /\ runPc = "done"
    /\ rich
    /\ Len(tasks) = 2
    /\ \A i \in DOMAIN tasks : Terminal(tasks[i])
    /\ \E i \in DOMAIN tasks : pc[i] = "raised"
    /\ savedTerminal = {1, 2}

\* Two state dicts that differ at most in their top-level timestamp.
SameContent(a, b) ==
    /\ a.session_id = b.session_id
    /\ a.main_prompt = b.main_prompt
    /\ a.tasks = b.tasks
    /\ a.messages = b.messages

C16_TaskCount == (runPc # "init" /\ max_retries >= 0) => Len(tasks) = agent_count

\* The status changes of the task state machine as claimed.
ClaimedTransitions ==
    {<<PENDING, RUNNING>>, <<RUNNING, COMPLETED>>, <<RUNNING, FAILED>>,
     <<RUNNING, RETRYING>>, <<RETRYING, RUNNING>>}

\* C17: a task's status changes only along Pending->Running,
\* Running->Completed, Running->Failed, Running->Retrying and
\* Retrying->Running, and every attempt's call is made in status Running.
C17_StatusTransitions ==
    [][ \A i \in DOMAIN tasks :
            /\ \/ tasks'[i].status = tasks[i].status
               \/ <<tasks[i].status, tasks'[i].status>> \in ClaimedTransitions
            /\ pc'[i] = "call" => tasks'[i].status = RUNNING ]_vars

\* The status changes execute makes: a retry attempt is begun, performed and
\* ended in status Retrying.
CodeTransitions ==
    {<<PENDING, RUNNING>>, <<RUNNING, COMPLETED>>, <<RUNNING, FAILED>>,
     <<RUNNING, RETRYING>>, <<RETRYING, RETRYING>>, <<RETRYING, COMPLETED>>,
     <<RETRYING, FAILED>>}

StatusTransitionsOfCode ==
    [][ \A i \in DOMAIN tasks :
            <<tasks[i].status, tasks'[i].status>> \in
                CodeTransitions \cup {<<st, st>> : st \in AgentStatus} ]_vars

\* C18: once a task is Completed or Failed, no step changes its status,
\* attempt, result or error.
C18_TerminalFrozen ==
    [][ \A i \in DOMAIN tasks :
            Terminal(tasks[i]) =>
                /\ tasks'[i].status = tasks[i].status
                /\ tasks'[i].attempt = tasks[i].attempt
                /\ tasks'[i].result = tasks[i].result
                /\ tasks'[i].error = tasks[i].error ]_vars

\* C18 witness: a task that Failed at its last attempt, after which execute
\* went through the loop test and its end, and the run through synthesis.
C18_Witness ==
    /\ runPc = "done"
    /\ \E i \in DOMAIN tasks :
          /\ tasks[i].status = FAILED
          /\ tasks[i].attempt = 2
          /\ Finished(i)

\* C19: a task's attempt is never below 0 nor above max_retries + 1, and it
\* counts the attempts begun: 0 at creation, one more at the start of each
\* attempt, changed at no other time.
C19_AttemptBounds ==
    \A i \in DOMAIN tasks :
        /\ 0 <= tasks[i].attempt
        /\ tasks[i].attempt <= tasks[i].max_retries + 1
        /\ tasks[i].attempt = Len(attempts[i]) + (IF pc[i] = "call" THEN 1 ELSE 0)

\* The same for the tasks created with max_retries >= -1.
AttemptBoundsFromMinusOne ==
    \A i \in DOMAIN tasks :
        tasks[i].max_retries >= -1 =>
            /\ 0 <= tasks[i].attempt
            /\ tasks[i].attempt <= tasks[i].max_retries + 1
            /\ tasks[i].attempt = Len(attempts[i]) + (IF pc[i] = "call" THEN 1 ELSE 0)

\* The outcome of the latest attempt whose call has ended.
LastAttempt(i) == attempts[i][Len(attempts[i])]

\* C20: an attempt counts as successful exactly when its call reports success
\* and left non-empty output: after each attempt the task is Completed if
\* and only if the call returned True and the result is not empty.
C20_SuccessIffOutput ==
    \A i \in DOMAIN tasks :
        (pc[i] # "call" /\ attempts[i] # <<>>) =>
            (tasks[i].status = COMPLETED
                <=> (LastAttempt(i) = "true" /\ Truthy(tasks[i].result)))

\* What the code does: the task is Completed exactly when the call returned
\* True, whatever the output.
SuccessIffReturnedTrue ==
    \A i \in DOMAIN tasks :
        (pc[i] # "call" /\ attempts[i] # <<>>) =>
            (tasks[i].status = COMPLETED <=> LastAttempt(i) = "true")

\* C21: a task's result is empty as long as none of its attempts has
\* succeeded; so a task that ends Failed has an empty result.
C21_ResultEmptyUntilSuccess ==
    \A i \in DOMAIN tasks :
        ~Succeeded(i) => tasks[i].result = EmptyText

\* The same in simulation mode, where only a successful call assigns result.
ResultEmptyUntilSuccessMock == test_mode => C21_ResultEmptyUntilSuccess

\* C22: every task that has ended Failed has a non-empty error, and the
\* report of the run has an error block in that task's section.
C22_FailedHasError ==
    \A i \in DOMAIN tasks :
        (Finished(i) /\ tasks[i].status = FAILED) =>
            /\ Truthy(tasks[i].error)
            /\ runPc = "done" => report.sections[i].error # None

\* What the code guarantees: a Failed task's error is the text its last
\* failed attempt left, which is the empty text when the process exited
\* non-zero without writing to stderr.
FailedErrorOfLastAttempt ==
    \A i \in DOMAIN tasks :
        (Finished(i) /\ tasks[i].status = FAILED) =>
            /\ tasks[i].error \in
                  {EmptyText, LongStderr, TimedOut, LaunchError, SimulatedFailure,
                   CallbackError}
            /\ (runPc = "done" /\ Truthy(tasks[i].error)) =>
                  report.sections[i].error # None

\* The places on the board of task i's messages of one type.
MessagesOf(i, type) ==
    {k \in 1..Len(messages) :
        messages[k].from_agent = tasks[i].name /\ messages[k].msg_type = type}

\* C23: a task whose first successful attempt is attempt k has exactly k - 1
\* warning messages on the board, all before its single info message.
C23_WarningsBeforeInfo ==
    \A i \in DOMAIN tasks :
        Succeeded(i) =>
            /\ Cardinality(MessagesOf(i, "warning")) = FirstSuccess(i) - 1
            /\ Cardinality(MessagesOf(i, "info")) = 1
            /\ \A w \in MessagesOf(i, "warning") : \A n \in MessagesOf(i, "info") : w < n

\* The same for the tasks none of whose attempts ended by an exception.
WarningsBeforeInfoNoException ==
    \A i \in DOMAIN tasks :
        (\A k \in 1..Len(attempts[i]) : attempts[i][k] # "raise") =>
            (Succeeded(i) =>
                /\ Cardinality(MessagesOf(i, "warning")) = FirstSuccess(i) - 1
                /\ Cardinality(MessagesOf(i, "info")) = 1
                /\ \A w \in MessagesOf(i, "warning") :
                      \A n \in MessagesOf(i, "info") : w < n)

\* The places on the board of all of task i's messages.
AllMessagesOf(i) ==
    {k \in 1..Len(messages) : messages[k].from_agent = tasks[i].name}

\* The last message task i posted is the warning that its retries are used up.
LastIsExhaustedWarning(i) ==
    /\ AllMessagesOf(i) # {}
    /\ LET last == CHOOSE k \in AllMessagesOf(i) : \A j \in AllMessagesOf(i) : j <= k IN
         /\ messages[last].msg_type = "warning"
         /\ messages[last].content = ExhaustedMsg(tasks[i].max_retries)

\* C24: every task that is Failed has posted, as its last message, a warning
\* that its attempts are used up, and has posted no info and no finding.
C24_FailedPostsWarning ==
    \A i \in DOMAIN tasks :
        (tasks[i].status = FAILED /\ max_retries >= 0) =>
            /\ LastIsExhaustedWarning(i)
            /\ MessagesOf(i, "info") = {}
            /\ MessagesOf(i, "finding") = {}

\* The same for the tasks whose last attempt returned False; a Failed task
\* has no info and no finding in any case.
FailedPostsWarningOnFalse ==
    \A i \in DOMAIN tasks :
        tasks[i].status = FAILED =>
            /\ attempts[i][Len(attempts[i])] = "false" => LastIsExhaustedWarning(i)
            /\ MessagesOf(i, "info") = {}
            /\ MessagesOf(i, "finding") = {}

\* The texts above that contain "issue" or "problem" in any letter case.
MentionsIssue(t) == t \in {IssueStdout, PartialStdout}

\* C25: a task has one info message once an attempt of it has succeeded and
\* is then Completed; it has one finding, after the info, exactly when the
\* result of the successful attempt mentions "issue" or "problem" in any
\* letter case; a task with no successful attempt has no info and no finding.
C25_SuccessMessages ==
    \A i \in DOMAIN tasks :
        IF Succeeded(i)
        THEN /\ tasks[i].status = COMPLETED
             /\ Cardinality(MessagesOf(i, "info")) = 1
             /\ Cardinality(MessagesOf(i, "finding")) =
                    (IF MentionsIssue(tasks[i].result) THEN 1 ELSE 0)
             /\ \A n \in MessagesOf(i, "info") :
                    /\ messages[n].content = CompletedMsg
                    /\ \A f \in MessagesOf(i, "finding") :
                          f > n /\ messages[f].content = FindingMsg
        ELSE /\ MessagesOf(i, "info") = {}
             /\ MessagesOf(i, "finding") = {}

\* A task succeeded with a result that says "Issue" and has its finding.
C25_Witness ==
    \E i \in DOMAIN tasks :
        /\ Succeeded(i)
        /\ tasks[i].result = IssueStdout
        /\ Cardinality(MessagesOf(i, "finding")) = 1

\* A task whose failed attempt printed "issues" has no finding for it.
NoFindingWitness ==
    \E i \in DOMAIN tasks :
        /\ tasks[i].status = FAILED
        /\ tasks[i].result = PartialStdout
        /\ MessagesOf(i, "finding") = {}

\* C26: with a progress callback set (the Rich path), the callback has run
\* for every status a finished task went through: Running, Retrying when it
\* made a further attempt, and the status it ended in.
C26_CallbackAtEveryTransition ==
    \A i \in DOMAIN tasks :
        (rich /\ Finished(i) /\ max_retries >= 0) =>
            /\ RUNNING \in notified[i]
            /\ tasks[i].attempt >= 2 => RETRYING \in notified[i]
            /\ tasks[i].status \in notified[i]

\* What the code does: the callback runs at the end of execute, with the
\* final status; during the attempts it runs only in simulation mode.
CallbackAtEndOfExecute ==
    \A i \in DOMAIN tasks :
        /\ (rich /\ Finished(i)) => tasks[i].status \in notified[i]
        /\ (rich /\ Finished(i) /\ test_mode /\ max_retries >= 0) => RUNNING \in notified[i]
        /\ (~test_mode /\ pc[i] \in {"call", "sleep", "loop", "finish"}) => notified[i] = {}
        /\ ~rich => notified[i] = {}

\* The latest attempt of task i ended in the timeout branch of _real_execute.
TimeoutLast(i) ==
    /\ attempts[i] # <<>>
    /\ LastAttempt(i) = "false"
    /\ tasks[i].error = TimedOut

\* C27: when a call exceeds the timeout its process is killed and the attempt
\* fails with the timeout error, and only then; the task then goes on to a
\* further attempt if one remains and is Failed if none does.
C27_TimeoutKillsAndFails ==
    \A i \in DOMAIN tasks :
        /\ TimeoutLast(i) <=> procs[i] = "killed"
        /\ TimeoutLast(i) =>
              IF Len(attempts[i]) <= tasks[i].max_retries
              THEN /\ tasks[i].status \in {RUNNING, RETRYING}
                   /\ pc[i] \in {"sleep", "loop", "call"}
                   /\ pc[i] = "call" => tasks[i].attempt = Len(attempts[i]) + 1
              ELSE /\ tasks[i].status = FAILED
                   /\ pc[i] \notin {"sleep", "call"}

\* A timed-out first attempt whose process was killed, and the second
\* attempt under way.
C27_Witness ==
    \E i \in DOMAIN tasks :
        /\ TimeoutLast(i)
        /\ procs[i] = "killed"
        /\ pc[i] = "call"
        /\ tasks[i].attempt = 2

\* A timed-out last attempt that left the task Failed.
TimeoutFailedWitness ==
    \E i \in DOMAIN tasks :
        /\ TimeoutLast(i)
        /\ procs[i] = "killed"
        /\ tasks[i].status = FAILED
        /\ Finished(i)

\* C28: after the user's interrupt no call of a worker completes with a
\* result and no task that had begun begins a further attempt, a Completed
\* task keeps its result, and the run ends as a cancellation.
C28_InterruptStopsWorkers ==
    [][(runError = "KeyboardInterrupt" /\ max_retries >= 0) =>
          \A i \in DOMAIN tasks :
              /\ ~(Len(attempts'[i]) > Len(attempts[i]) /\ LastAttempt(i)' = "true")
              /\ tasks[i].attempt >= 1 => tasks'[i].attempt = tasks[i].attempt
              /\ tasks[i].status = COMPLETED => tasks'[i].result = tasks[i].result
              /\ runPc' \in {"unwinding", "raised", "cancelled"}]_vars

\* The part of C28 about further attempts on its own; the workers of the
\* code retry after the interrupt, so this does not hold either.
RetryAfterInterrupt ==
    [][(runError = "KeyboardInterrupt" /\ max_retries >= 0) =>
          \A i \in DOMAIN tasks :
              tasks[i].attempt >= 1 => tasks'[i].attempt = tasks[i].attempt]_vars

\* What the code does on an interrupt: the workers run on to the end of
\* execute, Completed tasks keep their results, no report is written, and
\* main() reports a cancellation once every worker has ended.
InterruptJoinsWorkers ==
    /\ runError = "KeyboardInterrupt" =>
          /\ runPc \in {"unwinding", "raised", "cancelled"}
          /\ synthCount = 0
          /\ report = NoReport
    /\ runPc = "cancelled" => AllFinished

\* A Completed task keeps its result after the interrupt.
InterruptKeepsResults ==
    [][runError = "KeyboardInterrupt" =>
          \A i \in DOMAIN tasks :
              tasks[i].status = COMPLETED => tasks'[i] = tasks[i]]_vars

\* C29: a failure of run() itself ends the run with the error raised to the
\* caller and without a report; a run with no agents fails in this way when
\* the pool is created, and a run that has raised stays so.
C29_RunFailurePropagates ==
    [][/\ (runPc # "init" /\ agent_count <= 0) =>
             runPc = "raised" /\ runError = "ValueError"
       /\ runPc = "raised" =>
             /\ runError # ""
             /\ synthCount = 0
             /\ report = NoReport
             /\ runPc' = "raised"
             /\ synthCount' = 0
             /\ report' = NoReport]_vars

\* A run with --agents 0 that raised at the creation of the pool, while
\* another kind of failure is possible too.
C29_Witness ==
    /\ agent_count = 0
    /\ runPc = "raised"
    /\ runError = "ValueError"
    /\ synthCount = 0

\* A run that raised because save_state failed in the wait loop.
RunRaisedOnSaveWitness ==
    /\ agent_count > 0
    /\ runPc = "raised"
    /\ runError = "OSError"

\* The places on the board of the messages of type "finding".
FindingPlaces == {k \in 1..Len(messages) : messages[k].msg_type = "finding"}

\* C30: the shared findings of the report of a finished run are the board's
\* messages of type "finding", each once and in posting order: the n-th
\* entry is the n-th finding on the board, and there are no other entries.
C30_FindingsInPostingOrder ==
    runPc = "done" =>
        /\ Len(report.findings) = Cardinality(FindingPlaces)
        /\ \A k \in FindingPlaces :
              report.findings[Cardinality({j \in FindingPlaces : j <= k})] =
                  <<messages[k].from_agent, messages[k].content>>

\* A report with two findings, posted in the reverse of the task order, on a
\* board that also holds messages of other types.
C30_Witness ==
    /\ runPc = "done"
    /\ Len(report.findings) = 2
    /\ report.findings[1][1] = AgentName(2)
    /\ report.findings[2][1] = AgentName(1)
    /\ Len(messages) > 2

\* C31: the tasks made by one initialize_tasks call take the entries of the
\* catalog in order, the sixth and later ones the pair of the task five
\* places earlier; a later call on the same Orchestrator assigns the same
\* pairs again; every task has the configured max_retries.
C31_CatalogAssignment ==
    \A p \in DOMAIN tasks :
        /\ tasks[p].max_retries = max_retries
        /\ tasks[p].prompt.agent = tasks[p].name
        /\ IF p > agent_count
           THEN /\ tasks[p].name = tasks[p - agent_count].name
                /\ tasks[p].prompt = tasks[p - agent_count].prompt
           ELSE IF p > 5
           THEN /\ tasks[p].name = tasks[p - 5].name
                /\ tasks[p].prompt = tasks[p - 5].prompt
           ELSE /\ tasks[p].name = AgentMap[p]
                /\ tasks[p].prompt.perspective = PerspectiveMap[p]

\* More tasks than the catalog has entries, made twice over.
C31_Witness ==
    /\ agent_count > 5
    /\ Len(tasks) = 2 * agent_count
    /\ tasks[6].name = "security-auditor"
    /\ tasks[6].prompt.perspective = "Security & Architecture"

\* board is the start of later.
IsPrefix(board, later) ==
    /\ Len(board) <= Len(later)
    /\ \A k \in 1..Len(board) : later[k] = board[k]

\* C32: from the submission of the tasks on, a step changes the fields of a
\* task only if it is a step of that task's own execute, and such a step
\* changes no other task and only appends to the board; the steps of the
\* wait loop, of save_state and of synthesize change no task.
C32_SingleWriter ==
    [][runPc # "init" =>
          /\ Len(tasks') = Len(tasks)
          /\ \A i \in DOMAIN tasks : pc'[i] = pc[i] => tasks'[i] = tasks[i]
          /\ \A i, j \in DOMAIN tasks : (pc'[i] # pc[i] /\ j # i) => tasks'[j] = tasks[j]
          /\ IsPrefix(messages, messages')
          /\ (handled' # handled \/ runPc' # runPc \/ report' # report) => tasks' = tasks]_vars

\* One task has finished and was handled by the wait loop, its state saved,
\* while the other task has not begun.
C32_Witness ==
    /\ Len(tasks) = 2
    /\ \E i, j \in DOMAIN tasks :
          /\ Terminal(tasks[i])
          /\ InHandled(i)
          /\ tasks[j] = NewTask(j, max_retries)
    /\ stateFile # None
    /\ messages # <<>>

\* The lock is free or its holder is inside post(), where it waits for
\* nothing: no thread waits for a lock that will not be given up.
LockHolderRuns == lock = 0 \/ (lock \in DOMAIN bpc /\ bpc[lock] \in {"locked", "appended"})

LockFreeOutsidePost == lock = 0

\* The state file holds a whole snapshot that shows every task in the status
\* and with the attempt count it has now, and the whole message log.
FileShowsSession ==
    /\ stateFile # None
    /\ stateFile[1].complete
    /\ Len(stateFile[1].state.tasks) = Len(tasks)
    /\ \A i \in DOMAIN tasks :
          /\ stateFile[1].state.tasks[i].status = tasks[i].status
          /\ stateFile[1].state.tasks[i].attempt = tasks[i].attempt
    /\ Len(stateFile[1].state.messages) = Len(messages)
    /\ \A k \in 1..Len(messages) :
          /\ stateFile[1].state.messages[k].from = messages[k].from_agent
          /\ stateFile[1].state.messages[k].content = messages[k].content
          /\ stateFile[1].state.messages[k].type = messages[k].msg_type

\* C34: when run() has completed and no state-file write failed, the state
\* file is a snapshot taken after all tasks were terminal: every task is in it
\* as Completed or Failed with its final attempt count, with the full message
\* log, on the Rich path and on the simple path (stated for the runs with
\* tasks and max_retries >= 0).
C34_FinalSnapshot ==
    (runPc = "done" /\ agent_count > 0 /\ max_retries >= 0 /\ ~SaveFailed) =>
        /\ \A i \in DOMAIN tasks : Terminal(tasks[i])
        /\ FileShowsSession

\* What the code guarantees: the claim on the simple path, where the main
\* thread makes every save_state call, and for a single task on the Rich path.
FinalSnapshotSimple ==
    (runPc = "done" /\ agent_count > 0 /\ max_retries >= 0 /\ ~SaveFailed
        /\ (~rich \/ agent_count = 1)) =>
        /\ \A i \in DOMAIN tasks : Terminal(tasks[i])
        /\ FileShowsSession

\* C35: a reader that polls with since = the timestamp of the last message
\* it has received has, after each poll, received every message posted so
\* far exactly once, in posting order.
C35_PollingExactlyOnce == [][PollCall => received' = messages']_vars

\* What holds: the reader is never returned a message twice, and what it has
\* received is in posting order.
PollingNoDuplicates ==
    /\ \A j, k \in 1..Len(received) : j # k => received[j] # received[k]
    /\ \A j, k \in 1..Len(received) :
          j < k => \E a, b \in 1..Len(messages) :
                      a < b /\ messages[a] = received[j] /\ messages[b] = received[k]

\* The polling reader has everything when the clock moved on between posts.
PollingWithDistinctTimes ==
    [][(PollCall /\ \A j, k \in 1..Len(messages) :
                       j < k => StrLess(messages[j].timestamp, messages[k].timestamp))
          => received' = messages']_vars

\* Along the board no message has a timestamp smaller than an earlier one.
TimestampsNonDecreasing ==
    \A j, k \in 1..Len(messages) :
        j < k => ~StrLess(messages[k].timestamp, messages[j].timestamp)

\* part is the end of board.
IsSuffix(part, board) ==
    /\ Len(part) <= Len(board)
    /\ \A k \in 1..Len(part) : part[k] = board[Len(board) - Len(part) + k]

\* C36: in every state the timestamps on the board are non-decreasing in
\* insertion order, and every get_messages call returns a suffix of the board.
C36_TimestampsOrdered ==
    /\ []TimestampsNonDecreasing
    /\ [][\A snc \in SinceArgs : GetMessagesCall(snc) => IsSuffix(got', messages)]_vars

\* The same while the clock only moves forward.
TimestampsOrderedForwardClock ==
    /\ []TimestampsNonDecreasing
    /\ [][PollCall => IsSuffix(got', messages)]_vars

\* C37: once the run is over, calling execute() again on a task that is
\* Completed or Failed makes no attempt, posts no message and leaves the
\* task's status, attempt, result and error as they are (stated for the runs
\* with max_retries >= 0).
C37_ExecuteIdempotent ==
    [][(runPc = "done" /\ max_retries >= 0) =>
          /\ \A i \in DOMAIN tasks : Terminal(tasks[i]) => tasks'[i] = tasks[i]
          /\ attempts' = attempts
          /\ messages' = messages]_vars

\* What the code guarantees: a second execute() changes nothing on a task
\* that has used up its attempts, which every Failed task has.
ExecuteIdempotentWhenExhausted ==
    [][runPc = "done" =>
          \A i \in DOMAIN tasks :
              (Terminal(tasks[i]) /\ tasks[i].attempt > tasks[i].max_retries) =>
                  /\ tasks'[i] = tasks[i]
                  /\ attempts'[i] = attempts[i]
                  /\ messages' = messages]_vars

\* C38: an exception raised by the progress callback does not change the
\* outcome of the task: no attempt is used up by it, a task is Failed only
\* when the call of its last attempt returned False, and the task's error
\* never is the text of the callback's exception.
C38_CallbackIsObserver ==
    \A i \in DOMAIN tasks :
        /\ \A k \in 1..Len(attempts[i]) : attempts[i][k] \in {"true", "false"}
        /\ (tasks[i].status = FAILED /\ attempts[i] # <<>>) => LastAttempt(i) = "false"
        /\ tasks[i].error # CallbackError

\* What the code guarantees: the claim holds where the callback runs only at
\* the end of execute (live mode), and an exception of that last callback
\* leaves the task as it is.
CallbackAtEndIsObserver ==
    /\ [](~test_mode => C38_CallbackIsObserver)
    /\ [][\A i \in DOMAIN tasks :
             (pc[i] = "saving" /\ pc'[i] = "raised") => tasks'[i] = tasks[i]]_vars

\* No progress callback of task i has raised.
NoCallbackRaised(i) ==
    /\ pc[i] # "raised"
    /\ \A k \in 1..Len(attempts[i]) : attempts[i][k] # "raise"

\* C39: in simulation mode, with a callback that does not raise, only the
\* first attempt of a task can fail: with max_retries >= 1 a task whose
\* execute has ended is Completed with attempt 1 or 2, and a task is Failed
\* only with max_retries = 0, attempt 1 and the simulated-failure error.
C39_MockFailsFirstAttemptOnly ==
    \A i \in DOMAIN tasks :
        (test_mode /\ NoCallbackRaised(i)) =>
            /\ \A k \in 2..Len(attempts[i]) : attempts[i][k] = "true"
            /\ (Finished(i) /\ max_retries >= 1) =>
                  /\ tasks[i].status = COMPLETED
                  /\ tasks[i].attempt \in {1, 2}
            /\ tasks[i].status = FAILED =>
                  /\ max_retries = 0
                  /\ tasks[i].attempt = 1
                  /\ tasks[i].error = SimulatedFailure

\* A simulated task that failed its first attempt and succeeded on the
\* second, with the Rich callback set and not raising.
C39_Witness ==
    \E i \in DOMAIN tasks :
        /\ test_mode
        /\ rich
        /\ Finished(i)
        /\ NoCallbackRaised(i)
        /\ attempts[i] = <<"false", "true">>
        /\ tasks[i].status = COMPLETED
        /\ tasks[i].attempt = 2

\* A simulated task with --retries 0 that failed its only attempt.
MockFailedWitness ==
    \E i \in DOMAIN tasks :
        /\ test_mode
        /\ max_retries = 0
        /\ Finished(i)
        /\ NoCallbackRaised(i)
        /\ tasks[i].status = FAILED
        /\ tasks[i].error = SimulatedFailure

\* C40: a task's error changes only in a step in which one of its attempts
\* fails, so a successful attempt leaves the error of the last failed attempt
\* in place; and the report of a finished run has an error block in a task's
\* section exactly when the task's error is not empty, whatever its status.
C40_ErrorNeverCleared ==
    /\ [][\A i \in DOMAIN tasks :
             tasks'[i].error # tasks[i].error =>
                 /\ Len(attempts'[i]) = Len(attempts[i]) + 1
                 /\ LastAttempt(i)' \in {"false", "raise"}]_vars
    /\ [](runPc = "done" =>
             \A i \in DOMAIN tasks :
                 report.sections[i].error # None <=> Truthy(tasks[i].error))

\* A task that is Completed after a failed attempt, with that attempt's error
\* still recorded and shown in an error block of the report.
C40_Witness ==
    /\ runPc = "done"
    /\ \E i \in DOMAIN tasks :
          /\ tasks[i].status = COMPLETED
          /\ attempts[i] = <<"false", "true">>
          /\ Truthy(tasks[i].error)
          /\ report.sections[i].status = COMPLETED
          /\ report.sections[i].error # None

====
